---- MODULE Spec2Model ----
(***************************************************************************)
(* Model of ouchBinary.py: a script that builds one 32-byte OUCH-style     *)
(* order message from six module-level values and then unpacks it again,   *)
(* rebinding the same module-level names to the decoded values.            *)
(*                                                                         *)
(* The six literals of lines 4-9 are the script's inputs; they are held in *)
(* lit and drawn from bounded sets in Init.  Every statement of the script *)
(* that changes a module-level name is one action.                         *)
(*                                                                         *)
(* Representation of Python values: [t |-> type, v |-> payload]            *)
(*   bytes : v is a sequence of 0..255                                     *)
(*   str   : v is a sequence of Unicode code points                        *)
(*   int   : v is <<hi, lo>>, the integer hi * 65536 + lo with lo in       *)
(*           0..65535 (Python ints are unbounded; 2^32 does not fit the    *)
(*           model checker's integers, so the value is kept in two halves) *)
(*   undef : the name is not bound yet                                     *)
(***************************************************************************)
EXTENDS Integers, Sequences, FiniteSets, TLC

VARIABLES pc, lit, message_type, order_token, buy_sell, shares,
          stock_symbol, price, binary_message, unpacked_data, err

vars == <<pc, lit, message_type, order_token, buy_sell, shares,
          stock_symbol, price, binary_message, unpacked_data, err>>

names == <<message_type, order_token, buy_sell, shares, stock_symbol, price>>

(***************************************************************************)
(* Bounds of the input sets.                                               *)
(***************************************************************************)
\* how many times an edge unit (a space, a NUL, ...) is repeated at either
\* end of a generated text field
MaxPad == 1
\* how far the length of a generated text field may differ from its width
MaxSlack == 1
\* how far a generated integer may lie outside 0 .. 2^32 - 1
MaxOver == 1

(***************************************************************************)
(* Python values.                                                          *)
(***************************************************************************)
Undef == [t |-> "undef", v |-> <<>>]
Bytes(s) == [t |-> "bytes", v |-> s]
Str(s) == [t |-> "str", v |-> s]
IntV(n) == [t |-> "int", v |-> n]

NoError == [exc |-> "none", line |-> 0]
Raised(e, l) == [exc |-> e, line |-> l]

Half == 256 * 256

(***************************************************************************)
(* struct.pack(">I", n): four bytes, most significant first; struct.error  *)
(* unless 0 <= n <= 4294967295.                                            *)
(***************************************************************************)
StructPackIWrapping(n) ==
    LET hi == n[1] % Half
    IN [ok |-> TRUE,
        v |-> <<hi \div 256, hi % 256, n[2] \div 256, n[2] % 256>>]

StructPackI(n) ==
    IF n[1] >= 0 /\ n[1] < Half
    THEN [ok |-> TRUE,
          v |-> <<n[1] \div 256, n[1] % 256, n[2] \div 256, n[2] % 256>>]
    ELSE [ok |-> FALSE, v |-> <<>>]

(***************************************************************************)
(* int.from_bytes(b, "big") of a four-byte field.                          *)
(***************************************************************************)
IntFromBytesBig(b) == <<b[1] * 256 + b[2], b[3] * 256 + b[4]>>

(***************************************************************************)
(* struct.unpack(">c14sc4s8s4s", buf): the format has six fields of        *)
(* 1, 14, 1, 4, 8 and 4 bytes, big-endian mode, hence no alignment gaps.   *)
(***************************************************************************)
FieldSizes == <<1, 14, 1, 4, 8, 4>>

RECURSIVE SumTo(_, _)
SumTo(s, k) == IF k = 0 THEN 0 ELSE s[k] + SumTo(s, k - 1)

CalcSize == SumTo(FieldSizes, Len(FieldSizes))

FieldOf(buf, k) ==
    SubSeq(buf, SumTo(FieldSizes, k - 1) + 1, SumTo(FieldSizes, k))

StructUnpackAtLeast(buf) ==
    IF Len(buf) >= CalcSize
    THEN [ok |-> TRUE, v |-> [k \in 1..Len(FieldSizes) |-> FieldOf(buf, k)]]
    ELSE [ok |-> FALSE, v |-> <<>>]

StructUnpack(buf) ==
    IF Len(buf) = CalcSize
    THEN [ok |-> TRUE, v |-> [k \in 1..Len(FieldSizes) |-> FieldOf(buf, k)]]
    ELSE [ok |-> FALSE, v |-> <<>>]

(***************************************************************************)
(* bytes.decode(): strict UTF-8.                                           *)
(***************************************************************************)
IsCont(b) == b >= 128 /\ b <= 191

\* length of the well-formed UTF-8 sequence starting at b[i], 0 if none
SeqLenAt(b, i) ==
    LET b0 == b[i]
        has(n) == i + n - 1 <= Len(b)
        cont(j) == IsCont(b[i + j])
        second(lo, hi) == b[i + 1] >= lo /\ b[i + 1] <= hi
    IN  IF b0 < 128 THEN 1
        ELSE IF b0 >= 194 /\ b0 <= 223
             THEN IF has(2) /\ cont(1) THEN 2 ELSE 0
        ELSE IF b0 = 224
             THEN IF has(3) /\ second(160, 191) /\ cont(2) THEN 3 ELSE 0
        ELSE IF b0 = 237
             THEN IF has(3) /\ second(128, 159) /\ cont(2) THEN 3 ELSE 0
        ELSE IF b0 >= 225 /\ b0 <= 239
             THEN IF has(3) /\ cont(1) /\ cont(2) THEN 3 ELSE 0
        ELSE IF b0 = 240
             THEN IF has(4) /\ second(144, 191) /\ cont(2) /\ cont(3)
                  THEN 4 ELSE 0
        ELSE IF b0 = 244
             THEN IF has(4) /\ second(128, 143) /\ cont(2) /\ cont(3)
                  THEN 4 ELSE 0
        ELSE IF b0 >= 241 /\ b0 <= 243
             THEN IF has(4) /\ cont(1) /\ cont(2) /\ cont(3) THEN 4 ELSE 0
        ELSE 0

CodePointAt(b, i, n) ==
    LET low(j) == b[i + j] % 64
    IN  IF n = 1 THEN b[i]
        ELSE IF n = 2 THEN (b[i] % 32) * 64 + low(1)
        ELSE IF n = 3 THEN (b[i] % 16) * 4096 + low(1) * 64 + low(2)
        ELSE (b[i] % 8) * 262144 + low(1) * 4096 + low(2) * 64 + low(3)

RECURSIVE Utf8DecodeFrom(_, _)
Utf8DecodeFrom(b, i) ==
    IF i > Len(b) THEN [ok |-> TRUE, v |-> <<>>]
    ELSE LET n == SeqLenAt(b, i)
         IN  IF n = 0 THEN [ok |-> FALSE, v |-> <<>>]
             ELSE LET rest == Utf8DecodeFrom(b, i + n)
                  IN  IF rest.ok
                      THEN [ok |-> TRUE,
                            v |-> <<CodePointAt(b, i, n)>> \o rest.v]
                      ELSE [ok |-> FALSE, v |-> <<>>]

AsciiDecode(b) ==
    IF \A i \in 1..Len(b) : b[i] < 128
    THEN [ok |-> TRUE, v |-> b]
    ELSE [ok |-> FALSE, v |-> <<>>]

BytesDecode(b) == Utf8DecodeFrom(b, 1)

(***************************************************************************)
(* str.strip(): removes leading and trailing whitespace (str.isspace).     *)
(***************************************************************************)
IsSpace(c) ==
    \/ c >= 9 /\ c <= 13
    \/ c >= 28 /\ c <= 32
    \/ c \in {133, 160, 5760, 8232, 8233, 8239, 8287, 12288}
    \/ c >= 8192 /\ c <= 8202

RECURSIVE LStrip(_)
LStrip(s) ==
    IF s # <<>> /\ IsSpace(Head(s)) THEN LStrip(Tail(s)) ELSE s

RECURSIVE RStrip(_)
RStrip(s) ==
    IF s # <<>> /\ IsSpace(s[Len(s)])
    THEN RStrip(SubSeq(s, 1, Len(s) - 1))
    ELSE s

StrRStripOnly(s) == RStrip(s)

StrStrip(s) == LStrip(RStrip(s))

(***************************************************************************)
(* The script's literals, and the bounded sets the inputs are drawn from.  *)
(***************************************************************************)
\* lines 4-9 as written: b'O', b'ABC12345678901', b'B', 100, b'AAPL    ',
\* 15000
ScriptLit ==
    [message_type |-> <<79>>,
     order_token  |-> <<65, 66, 67, 49, 50, 51, 52,
                        53, 54, 55, 56, 57, 48, 49>>,
     buy_sell     |-> <<66>>,
     shares       |-> <<0, 100>>,
     stock_symbol |-> <<65, 65, 80, 76, 32, 32, 32, 32>>,
     price        |-> <<0, 15000>>]

RECURSIVE Rep(_, _)
Rep(u, n) == IF n <= 0 THEN <<>> ELSE u \o Rep(u, n - 1)

\* a space, a NUL, a tab, U+00E9 and U+00A0 in UTF-8, a lone lead byte
EdgeUnits ==
    {<<32>>, <<0>>, <<9>>, <<195, 169>>, <<194, 160>>, <<195>>}

Edges == {Rep(u, n) : u \in EdgeUnits, n \in 0..MaxPad}

\* n bytes of text with an interior space when there is room for one
Fill(n) == IF n >= 3 THEN <<65, 32, 66>> \o Rep(<<88>>, n - 3)
           ELSE Rep(<<88>>, n)

TextFields(w) ==
    {h \o Fill(n - Len(h) - Len(t)) \o t :
        <<h, t, n>> \in
            {x \in Edges \X Edges \X ((w - MaxSlack)..(w + MaxSlack)) :
                Len(x[1]) + Len(x[2]) <= x[3]}}

TokenPartners ==
    {ScriptLit.order_token,
     SubSeq(ScriptLit.order_token, 1, 13),
     ScriptLit.order_token \o <<50>>}

SymbolPartners ==
    {ScriptLit.stock_symbol,
     SubSeq(ScriptLit.stock_symbol, 1, 4),
     SubSeq(ScriptLit.stock_symbol, 1, 7),
     ScriptLit.stock_symbol \o <<32>>}

IntInputs ==
    {<<0, 0>>, <<0, 100>>, <<0, 15000>>, <<258, 772>>, <<Half - 1, Half - 1>>}
    \cup {<<-1, Half - k>> : k \in 1..MaxOver}
    \cup {<<Half, k - 1>> : k \in 1..MaxOver}

CharInputs == {<<79>>, <<32>>, <<0>>, <<195>>}

SideInputs == {<<66>>, <<83>>, <<255>>}

Inputs ==
    {[ScriptLit EXCEPT !.order_token = t, !.stock_symbol = s] :
        t \in TokenPartners, s \in SymbolPartners}
    \cup
    {[ScriptLit EXCEPT !.order_token = t, !.stock_symbol = s] :
        t \in TextFields(FieldSizes[2]), s \in SymbolPartners}
    \cup
    {[ScriptLit EXCEPT !.order_token = t, !.stock_symbol = s] :
        t \in TokenPartners, s \in TextFields(FieldSizes[5])}
    \cup
    {[ScriptLit EXCEPT !.message_type = c, !.buy_sell = d,
                       !.shares = n, !.price = p] :
        c \in CharInputs, d \in SideInputs, n \in IntInputs, p \in IntInputs}

(***************************************************************************)
(* The script.  pc names the next statement by its line; "aborted" is the  *)
(* state after an uncaught exception, "done" the end of the file.          *)
(***************************************************************************)
Init ==
    /\ lit \in Inputs
    /\ pc = "L4"
    /\ message_type = Undef
    /\ order_token = Undef
    /\ buy_sell = Undef
    /\ shares = Undef
    /\ stock_symbol = Undef
    /\ price = Undef
    /\ binary_message = Undef
    /\ unpacked_data = Undef
    /\ err = NoError

\* line 4: message_type = b'O'
DefineMessageType ==
    /\ pc = "L4"
    /\ message_type' = Bytes(lit.message_type)
    /\ pc' = "L5"
    /\ UNCHANGED <<lit, order_token, buy_sell, shares, stock_symbol, price,
                   binary_message, unpacked_data, err>>

\* line 5: order_token = b'ABC12345678901'
DefineOrderToken ==
    /\ pc = "L5"
    /\ order_token' = Bytes(lit.order_token)
    /\ pc' = "L6"
    /\ UNCHANGED <<lit, message_type, buy_sell, shares, stock_symbol, price,
                   binary_message, unpacked_data, err>>

\* line 6: buy_sell = b'B'
DefineBuySell ==
    /\ pc = "L6"
    /\ buy_sell' = Bytes(lit.buy_sell)
    /\ pc' = "L7"
    /\ UNCHANGED <<lit, message_type, order_token, shares, stock_symbol,
                   price, binary_message, unpacked_data, err>>

\* line 7: shares = struct.pack(">I", 100)
PackShares ==
    /\ pc = "L7"
    /\ LET r == StructPackI(lit.shares)
       IN  IF r.ok
           THEN /\ shares' = Bytes(r.v)
                /\ pc' = "L8"
                /\ err' = err
           ELSE /\ shares' = shares
                /\ pc' = "aborted"
                /\ err' = Raised("struct.error", 7)
    /\ UNCHANGED <<lit, message_type, order_token, buy_sell, stock_symbol,
                   price, binary_message, unpacked_data>>

\* line 8: stock_symbol = b'AAPL    '
DefineStockSymbol ==
    /\ pc = "L8"
    /\ stock_symbol' = Bytes(lit.stock_symbol)
    /\ pc' = "L9"
    /\ UNCHANGED <<lit, message_type, order_token, buy_sell, shares, price,
                   binary_message, unpacked_data, err>>

\* line 9: price = struct.pack(">I", 15000)
PackPrice ==
    /\ pc = "L9"
    /\ LET r == StructPackI(lit.price)
       IN  IF r.ok
           THEN /\ price' = Bytes(r.v)
                /\ pc' = "L12"
                /\ err' = err
           ELSE /\ price' = price
                /\ pc' = "aborted"
                /\ err' = Raised("struct.error", 9)
    /\ UNCHANGED <<lit, message_type, order_token, buy_sell, shares,
                   stock_symbol, binary_message, unpacked_data>>

\* the expression of line 12 over six bytes values
ConcatFields(mt, ot, bs, sh, ss, pr) == mt \o ot \o bs \o sh \o ss \o pr

\* lines 12-13: binary_message = message_type + order_token + ... + price
CreateBinaryMessage ==
    /\ pc = "L12"
    /\ binary_message' =
           Bytes(ConcatFields(message_type.v, order_token.v, buy_sell.v,
                              shares.v, stock_symbol.v, price.v))
    /\ pc' = "L17"
    /\ UNCHANGED <<lit, message_type, order_token, buy_sell, shares,
                   stock_symbol, price, unpacked_data, err>>

\* line 17: unpacked_data = struct.unpack(">c14sc4s8s4s", binary_message)
UnpackMessage ==
    /\ pc = "L17"
    /\ LET r == StructUnpack(binary_message.v)
       IN  IF r.ok
           THEN /\ unpacked_data' = [t |-> "tuple", v |-> r.v]
                /\ pc' = "L20"
                /\ err' = err
           ELSE /\ unpacked_data' = unpacked_data
                /\ pc' = "aborted"
                /\ err' = Raised("struct.error", 17)
    /\ UNCHANGED <<lit, message_type, order_token, buy_sell, shares,
                   stock_symbol, price, binary_message>>

\* lines 20-21: message_type = unpacked_data[0].decode()
DecodeMessageType ==
    /\ pc = "L20"
    /\ LET r == BytesDecode(unpacked_data.v[1])
       IN  IF r.ok
           THEN /\ message_type' = Str(r.v)
                /\ pc' = "L23"
                /\ err' = err
           ELSE /\ message_type' = message_type
                /\ pc' = "aborted"
                /\ err' = Raised("UnicodeDecodeError", 20)
    /\ UNCHANGED <<lit, order_token, buy_sell, shares, stock_symbol, price,
                   binary_message, unpacked_data>>

\* lines 23-24: order_token = unpacked_data[1].decode().strip()
DecodeOrderToken ==
    /\ pc = "L23"
    /\ LET r == BytesDecode(unpacked_data.v[2])
       IN  IF r.ok
           THEN /\ order_token' = Str(StrStrip(r.v))
                /\ pc' = "L26"
                /\ err' = err
           ELSE /\ order_token' = order_token
                /\ pc' = "aborted"
                /\ err' = Raised("UnicodeDecodeError", 23)
    /\ UNCHANGED <<lit, message_type, buy_sell, shares, stock_symbol, price,
                   binary_message, unpacked_data>>

\* lines 26-27: buy_sell = unpacked_data[2].decode()
DecodeBuySell ==
    /\ pc = "L26"
    /\ LET r == BytesDecode(unpacked_data.v[3])
       IN  IF r.ok
           THEN /\ buy_sell' = Str(r.v)
                /\ pc' = "L29"
                /\ err' = err
           ELSE /\ buy_sell' = buy_sell
                /\ pc' = "aborted"
                /\ err' = Raised("UnicodeDecodeError", 26)
    /\ UNCHANGED <<lit, message_type, order_token, shares, stock_symbol,
                   price, binary_message, unpacked_data>>

\* lines 29-30: shares = int.from_bytes(unpacked_data[3], "big")
DecodeShares ==
    /\ pc = "L29"
    /\ shares' = IntV(IntFromBytesBig(unpacked_data.v[4]))
    /\ pc' = "L32"
    /\ UNCHANGED <<lit, message_type, order_token, buy_sell, stock_symbol,
                   price, binary_message, unpacked_data, err>>

\* lines 32-33: stock_symbol = unpacked_data[4].decode().strip()
DecodeStockSymbol ==
    /\ pc = "L32"
    /\ LET r == BytesDecode(unpacked_data.v[5])
       IN  IF r.ok
           THEN /\ stock_symbol' = Str(StrStrip(r.v))
                /\ pc' = "L35"
                /\ err' = err
           ELSE /\ stock_symbol' = stock_symbol
                /\ pc' = "aborted"
                /\ err' = Raised("UnicodeDecodeError", 32)
    /\ UNCHANGED <<lit, message_type, order_token, buy_sell, shares, price,
                   binary_message, unpacked_data>>

\* lines 35-37: price = int.from_bytes(unpacked_data[5], "big"), then the
\* two closing prints, which bind nothing
DecodePrice ==
    /\ pc = "L35"
    /\ price' = IntV(IntFromBytesBig(unpacked_data.v[6]))
    /\ pc' = "done"
    /\ UNCHANGED <<lit, message_type, order_token, buy_sell, shares,
                   stock_symbol, binary_message, unpacked_data, err>>

Next ==
    \/ DefineMessageType
    \/ DefineOrderToken
    \/ DefineBuySell
    \/ PackShares
    \/ DefineStockSymbol
    \/ PackPrice
    \/ CreateBinaryMessage
    \/ UnpackMessage
    \/ DecodeMessageType
    \/ DecodeOrderToken
    \/ DecodeBuySell
    \/ DecodeShares
    \/ DecodeStockSymbol
    \/ DecodePrice

Spec == Init /\ [][Next]_vars

TypeOK ==
    /\ pc \in {"L4", "L5", "L6", "L7", "L8", "L9", "L12", "L17", "L20", "L23",
               "L26", "L29", "L32", "L35", "done", "aborted"}
    /\ lit \in Inputs
    /\ \A k \in 1..6 : names[k].t \in {"undef", "bytes", "str", "int"}
    /\ binary_message.t \in {"undef", "bytes"}
    /\ unpacked_data.t \in {"undef", "tuple"}
    /\ err.exc \in {"none", "struct.error", "UnicodeDecodeError"}
    /\ (pc = "aborted") = (err # NoError)

(***************************************************************************)
(* Vocabulary of the properties.                                           *)
(***************************************************************************)
\* line 12 has run: the encoder has produced its bytes
Built == binary_message # Undef

OutOfRange(n) == n[1] < 0 \/ n[1] >= Half

IsAscii(s) == \A i \in 1..Len(s) : s[i] < 128

\* printable ASCII characters only
IsText(s) == \A i \in 1..Len(s) : s[i] >= 32 /\ s[i] <= 126

\* the encode constraints of an order message
ValidMsg(m) ==
    /\ Len(m.message_type) = 1 /\ IsText(m.message_type)
    /\ Len(m.buy_sell) = 1 /\ IsText(m.buy_sell)
    /\ Len(m.order_token) <= 14 /\ IsText(m.order_token)
    /\ Len(m.stock_symbol) <= 8 /\ IsText(m.stock_symbol)
    /\ ~OutOfRange(m.shares)
    /\ ~OutOfRange(m.price)

RECURSIVE TrimRight(_, _)
TrimRight(s, pad) ==
    IF s # <<>> /\ s[Len(s)] \in pad
    THEN TrimRight(SubSeq(s, 1, Len(s) - 1), pad)
    ELSE s

PadRight(s, w) == s \o [i \in 1..(w - Len(s)) |-> 32]

BigEndian32(n) == <<n[1] \div 256, n[1] % 256, n[2] \div 256, n[2] % 256>>

ExpectedWire(m) ==
    m.message_type \o PadRight(m.order_token, 14) \o m.buy_sell
    \o BigEndian32(m.shares) \o PadRight(m.stock_symbol, 8)
    \o BigEndian32(m.price)

\* the values lines 4-9 bind for the literals of lit
BuiltNames ==
    <<Bytes(lit.message_type), Bytes(lit.order_token), Bytes(lit.buy_sell),
      Bytes(BigEndian32(lit.shares)), Bytes(lit.stock_symbol),
      Bytes(BigEndian32(lit.price))>>

\* lines 7, 9 and 12 applied to the values the names hold now
ReEncoded ==
    ConcatFields(message_type.v, order_token.v, buy_sell.v,
                 StructPackI(shares.v).v, stock_symbol.v,
                 StructPackI(price.v).v)

\* the pc values at which line 12 has not run yet
BeforeBuild == {"L4", "L5", "L6", "L7", "L8", "L9", "L12"}

\* d is s without its leading and trailing whitespace: s is a run of
\* whitespace, then d, then a run of whitespace, and d neither starts nor
\* ends with whitespace
IsStripOf(d, s) ==
    \E i \in 0..Len(s) :
        /\ i + Len(d) <= Len(s)
        /\ d = SubSeq(s, i + 1, i + Len(d))
        /\ \A k \in 1..i : IsSpace(s[k])
        /\ \A k \in (i + Len(d) + 1)..Len(s) : IsSpace(s[k])
        /\ d # <<>> => ~IsSpace(d[1]) /\ ~IsSpace(d[Len(d)])

\* well-formed UTF-8, stated byte by byte (Unicode, table 3-7): every byte
\* is an ASCII byte, the lead byte of a complete sequence, or a continuation
\* byte inside the sequence of a lead byte
LeadWidth(b) ==
    IF b >= 194 /\ b <= 223 THEN 2
    ELSE IF b >= 224 /\ b <= 239 THEN 3
    ELSE IF b >= 240 /\ b <= 244 THEN 4
    ELSE 0

SecondByteOk(lead, b) ==
    /\ b >= (IF lead = 224 THEN 160 ELSE IF lead = 240 THEN 144 ELSE 128)
    /\ b <= (IF lead = 237 THEN 159 ELSE IF lead = 244 THEN 143 ELSE 191)

CompleteAt(s, j) ==
    /\ LeadWidth(s[j]) > 0
    /\ j + LeadWidth(s[j]) - 1 <= Len(s)
    /\ SecondByteOk(s[j], s[j + 1])
    /\ \A k \in (j + 2)..(j + LeadWidth(s[j]) - 1) : s[k] >= 128 /\ s[k] <= 191

WellFormedUtf8(s) ==
    \A i \in 1..Len(s) :
        \/ s[i] < 128
        \/ CompleteAt(s, i)
        \/ /\ s[i] >= 128 /\ s[i] <= 191
           /\ \E j \in 1..(i - 1) :
                  CompleteAt(s, j) /\ i <= j + LeadWidth(s[j]) - 1

\* the text fields of the unpacked tuple, and the line that decodes each
TextFieldAt == [l \in {20, 23, 26, 32} |->
                   IF l = 20 THEN 1 ELSE IF l = 23 THEN 2
                   ELSE IF l = 26 THEN 3 ELSE 5]

\* the text fields already decoded when control is at p
DecodedAt(p) ==
    IF p = "L23" THEN {1}
    ELSE IF p = "L26" THEN {1, 2}
    ELSE IF p \in {"L29", "L32"} THEN {1, 2, 3}
    ELSE IF p \in {"L35", "done"} THEN {1, 2, 3, 5}
    ELSE {}

(***************************************************************************)
(* Properties.                                                             *)
(***************************************************************************)

\* C1 (round trip): for every order message that satisfies the encode
\* constraints, encoding and then decoding succeeds and yields the six
\* fields of the message, text fields compared with padding stripped.
C1_RoundTrip ==
    ValidMsg(lit) =>
        /\ pc # "aborted"
        /\ pc = "done" =>
              /\ message_type = Str(lit.message_type)
              /\ order_token = Str(TrimRight(lit.order_token, {32}))
              /\ buy_sell = Str(lit.buy_sell)
              /\ shares = IntV(lit.shares)
              /\ stock_symbol = Str(TrimRight(lit.stock_symbol, {32}))
              /\ price = IntV(lit.price)

\* C2 (wire layout): for every valid order message the encoded bytes are
\* message_type, order_token right-padded with spaces to 14 bytes,
\* buy_sell, shares big-endian, stock_symbol right-padded with spaces to 8
\* bytes, price big-endian, in this order and without gaps.
C2_WireLayout ==
    ValidMsg(lit) /\ Built => binary_message.v = ExpectedWire(lit)

\* C3 (fixed length): for every valid order message, also one with a short
\* order_token or stock_symbol, the encoded message is exactly 32 bytes.
C3_FixedLength ==
    ValidMsg(lit) /\ Built => Len(binary_message.v) = 32

\* C4 (field overflow rejection): with an order_token longer than 14 bytes
\* or a stock_symbol longer than 8 bytes the encoder fails and produces no
\* bytes.
C4_FieldOverflowRejected ==
    Len(lit.order_token) > 14 \/ Len(lit.stock_symbol) > 8 =>
        /\ ~Built
        /\ pc \in BeforeBuild \cup {"aborted"}

\* C5 (length rejection): a byte sequence whose length is not 32 is
\* rejected by the unpacking of line 17 with struct.error; no tuple is
\* produced and none of the six names is rebound to a decoded value.
C5_LengthRejection ==
    Built /\ Len(binary_message.v) # 32 =>
        /\ pc \in {"L17", "aborted"}
        /\ pc = "aborted" => err = Raised("struct.error", 17)
        /\ unpacked_data = Undef
        /\ \A k \in 1..6 : names[k].t = "bytes"

C5_Witness ==
    /\ pc = "aborted"
    /\ err = Raised("struct.error", 17)
    /\ Len(binary_message.v) < 32

\* C6 (numeric range rejection): shares or price below 0 or above
\* 4294967295 makes the packing of line 7 or 9 fail with struct.error; the
\* value is not wrapped, its name stays unbound and no message is built.
C6_NumericRangeRejection ==
    /\ OutOfRange(lit.shares) =>
          /\ shares = Undef
          /\ pc \in {"L4", "L5", "L6", "L7", "aborted"}
          /\ pc = "aborted" => err = Raised("struct.error", 7)
    /\ OutOfRange(lit.price) =>
          /\ price = Undef
          /\ pc \in {"L4", "L5", "L6", "L7", "L8", "L9", "aborted"}
          /\ pc = "aborted" => err.exc = "struct.error" /\ err.line \in {7, 9}
    /\ OutOfRange(lit.shares) \/ OutOfRange(lit.price) => ~Built

C6_Witness ==
    /\ pc = "aborted"
    /\ err = Raised("struct.error", 9)
    /\ lit.price[1] >= Half
    /\ shares.t = "bytes"

C8_Idempotence ==
    ValidMsg(lit) /\ pc = "done" => ReEncoded = binary_message.v

\* C9 as stated (decode totality): a 32-byte sequence decodes unless a
\* text field holds a byte that is not ASCII, and then it fails with the
\* decoding error.
C9_AsciiOnly ==
    unpacked_data # Undef =>
        /\ pc = "done" =>
              \A k \in {1, 2, 3, 5} : IsAscii(unpacked_data.v[k])
        /\ pc = "aborted" =>
              /\ err.exc = "UnicodeDecodeError"
              /\ \E k \in {1, 2, 3, 5} : ~IsAscii(unpacked_data.v[k])

\* C9 as amended: a 32-byte sequence decodes unless a text field is not
\* well-formed UTF-8, and then the decoding of the first such field fails
\* with UnicodeDecodeError; the integer fields never fail.
C9_Utf8Totality ==
    unpacked_data # Undef =>
        /\ \A k \in DecodedAt(pc) : WellFormedUtf8(unpacked_data.v[k])
        /\ pc = "aborted" =>
              /\ err.exc = "UnicodeDecodeError"
              /\ err.line \in DOMAIN TextFieldAt
              /\ ~WellFormedUtf8(unpacked_data.v[TextFieldAt[err.line]])
              /\ \A k \in {1, 2, 3, 5} :
                    k < TextFieldAt[err.line] =>
                        WellFormedUtf8(unpacked_data.v[k])

C9_Witness ==
    /\ pc = "done"
    /\ \E i \in 1..14 : unpacked_data.v[2][i] >= 128

\* C10 (no shared mutable state): once the message is built, the six
\* values it was built from stay what lines 4-9 made them, through the
\* decoding and after it.
C10_DecodeLeavesInputs ==
    Built => names = BuiltNames

====
